---- MODULE Spec2Model ----
(***************************************************************************)
(* Model of the FHIR server's authorization core (service/authorization.rs *)
(* and service/authorization_rules.rs), of the four resource services that *)
(* call it, of the repositories behind them and of the HTTP and gRPC       *)
(* handlers in front of them.                                              *)
(*                                                                         *)
(* Strings that the code inspects structurally (ids, subject references)   *)
(* are modelled as the sequence of their '/'-separated segments:           *)
(* "Patient/p1" is <<"Patient", "p1">>, "p1" is <<"p1">>.  Equality of     *)
(* such sequences is string equality, strip_prefix("Patient/") and         *)
(* split('/') are computed on the segments.                                *)
(* Option<T> is a sequence of length 0 (None) or 1 (Some(v)).              *)
(***************************************************************************)
EXTENDS Integers, Sequences, FiniteSets, TLC

VARIABLES chk, svc, db, last, history, calls, acked

\* The repository's history table, its calls in flight and the count of
\* updates it has acknowledged.
store == <<history, calls, acked>>

vars == <<chk, svc, db, last, history, calls, acked>>

(***************************************************************************)
(* Bounds                                                                  *)
(***************************************************************************)
NumPatients == 2

MaxResources == 2

MaxWrites == 3

NumProcs == 2

(***************************************************************************)
(* Vocabulary                                                              *)
(***************************************************************************)
None == <<>>

Some(v) == <<v>>

IsSome(o) == Len(o) = 1

Unwrap(o) == o[1]

\* Segment names used for generated ids (UUID-shaped strings).
IdNames == <<"p1", "p2", "p3", "p4", "p5", "p6">>

UuidSegments == {IdNames[i] : i \in 1..Len(IdNames)}

\* Uuid::parse_str succeeds only on a single UUID-shaped segment.
IsUuid(s) == Len(s) = 1 /\ s[1] \in UuidSegments

PatientIds == {<<IdNames[i]>> : i \in 1..NumPatients}

Role == {"Admin", "Clinician", "Patient", "System"}

Permission == {"Read", "Create", "Update", "Delete", "Search", "ReadHistory"}

ResourceTypes == {"Patient", "Observation", "Condition", "Encounter"}

CompartmentKinds == {"Observation", "Condition", "Encounter"}

Ok == [kind |-> "Ok"]

Forbidden(msg) == [kind |-> "Forbidden", message |-> msg]

IsOk(r) == r.kind = "Ok"

IsForbidden(r) == r.kind = "Forbidden"

(***************************************************************************)
(* SecurityContext                                                         *)
(***************************************************************************)
SecurityContext_new(user_id, roles) ==
    [user_id |-> user_id, roles |-> roles, patient_id |-> None,
     organization_id |-> None]

SecurityContext_admin(user_id) == SecurityContext_new(user_id, {"Admin"})

SecurityContext_clinician(user_id, organization_id) ==
    [SecurityContext_new(user_id, {"Clinician"})
        EXCEPT !.organization_id = organization_id]

SecurityContext_patient(user_id, patient_id) ==
    [SecurityContext_new(user_id, {"Patient"})
        EXCEPT !.patient_id = Some(patient_id)]

SecurityContext_system == SecurityContext_new(<<"system">>, {"System"})

has_role(context, role) == role \in context.roles

is_patient(context) == has_role(context, "Patient")

is_admin(context) == has_role(context, "Admin")

is_clinician(context) == has_role(context, "Clinician")

is_system(context) == has_role(context, "System")

get_patient_id(context) == context.patient_id

(***************************************************************************)
(* DefaultAuthorizer                                                       *)
(***************************************************************************)
role_has_permission_NoClinicianCreate(role, permission) ==
    CASE role \in {"Admin", "System"} -> TRUE
      [] role = "Clinician" ->
            permission \in {"Read", "Update", "Search", "ReadHistory"}
      [] role = "Patient" -> permission \in {"Read", "Search", "ReadHistory"}

role_has_permission_PatientWrites(role, permission) ==
    CASE role \in {"Admin", "System"} -> TRUE
      [] role = "Clinician" ->
            permission \in {"Read", "Create", "Update", "Search", "ReadHistory"}
      [] role = "Patient" -> TRUE

role_has_permission(role, permission) ==
    CASE role \in {"Admin", "System"} -> TRUE
      [] role = "Clinician" ->
            permission \in {"Read", "Create", "Update", "Search", "ReadHistory"}
      [] role = "Patient" -> permission \in {"Read", "Search", "ReadHistory"}

check_permission_AllRoles(context, resource_type, permission) ==
    IF context.roles # {}
       /\ \A role \in context.roles : role_has_permission(role, permission)
    THEN Ok
    ELSE Forbidden(<<"permission", context.user_id, permission, resource_type>>)

check_permission_ByResourceType(context, resource_type, permission) ==
    LET has_permission ==
            \E role \in context.roles :
                /\ role_has_permission(role, permission)
                /\ (role = "Patient" => resource_type = "Patient")
    IN  IF has_permission
        THEN Ok
        ELSE Forbidden(<<"permission", context.user_id, permission,
                         resource_type>>)

check_permission(context, resource_type, permission) ==
    LET has_permission ==
            \E role \in context.roles : role_has_permission(role, permission)
    IN  IF has_permission
        THEN Ok
        ELSE Forbidden(<<"permission", context.user_id, permission,
                         resource_type>>)

check_resource_access_NoIdCheck(context, resource_type, resource_id, permission) ==
    check_permission(context, resource_type, permission)

check_resource_access_PatientBeforeAdmin(context, resource_type, resource_id, permission) ==
    LET base == check_permission(context, resource_type, permission)
    IN  IF ~IsOk(base) THEN base
        ELSE IF is_patient(context) /\ resource_type = "Patient"
             THEN IF IsSome(get_patient_id(context))
                     /\ Unwrap(get_patient_id(context)) = resource_id
                  THEN Ok
                  ELSE Forbidden(<<"patient_resource", context.user_id,
                                   resource_id>>)
        ELSE Ok

check_resource_access(context, resource_type, resource_id, permission) ==
    LET base == check_permission(context, resource_type, permission)
    IN  IF ~IsOk(base) THEN base
        ELSE IF is_admin(context) \/ is_system(context) THEN Ok
        ELSE IF is_patient(context) /\ resource_type = "Patient"
             THEN IF IsSome(get_patient_id(context))
                     /\ Unwrap(get_patient_id(context)) = resource_id
                  THEN Ok
                  ELSE Forbidden(<<"patient_resource", context.user_id,
                                   resource_id>>)
        ELSE Ok

check_patient_compartment_access_NoIdCheck(context, patient_id, permission) ==
    IF is_admin(context) \/ is_system(context) THEN Ok
    ELSE check_permission(context, "Patient", permission)

check_patient_compartment_access_EveryoneIdChecked(context, patient_id, permission) ==
    IF is_admin(context) \/ is_system(context) THEN Ok
    ELSE LET base == check_permission(context, "Patient", permission)
         IN  IF ~IsOk(base) THEN base
             ELSE IF IsSome(get_patient_id(context))
                     /\ Unwrap(get_patient_id(context)) = patient_id
                  THEN Ok
                  ELSE Forbidden(<<"compartment", context.user_id,
                                   patient_id>>)

check_patient_compartment_access(context, patient_id, permission) ==
    IF is_admin(context) \/ is_system(context) THEN Ok
    ELSE LET base == check_permission(context, "Patient", permission)
         IN  IF ~IsOk(base) THEN base
             ELSE IF is_patient(context)
                  THEN IF IsSome(get_patient_id(context))
                          /\ Unwrap(get_patient_id(context)) = patient_id
                       THEN Ok
                       ELSE Forbidden(<<"compartment", context.user_id,
                                        patient_id>>)
             ELSE Ok

(***************************************************************************)
(* Resources and subject references                                        *)
(***************************************************************************)
Reference(reference) == [reference |-> reference]

\* Observation and Encounter carry subject: Option<Reference>, Condition a
\* plain Reference, Patient none.
SubjectOf(kind, resource) ==
    CASE kind = "Condition" -> Some(resource.subject)
      [] kind = "Patient" -> None
      [] OTHER -> resource.subject

extract_patient_id_from_reference_LastSegment(reference) ==
    IF IsSome(reference) /\ IsSome(Unwrap(reference).reference)
    THEN LET ref_str == Unwrap(Unwrap(reference).reference)
         IN  Some(<<ref_str[Len(ref_str)]>>)
    ELSE None

extract_patient_id_from_reference(reference) ==
    IF IsSome(reference) /\ IsSome(Unwrap(reference).reference)
    THEN LET ref_str == Unwrap(Unwrap(reference).reference)
         IN  IF Len(ref_str) >= 2 /\ ref_str[1] = "Patient"
             THEN Some(Tail(ref_str))
             ELSE Some(ref_str)
    ELSE None

(***************************************************************************)
(* PatientAuthorizationRules                                               *)
(***************************************************************************)
Patient_can_create(context, patient) ==
    check_permission(context, "Patient", "Create")

Patient_can_read(context, patient_id) ==
    check_resource_access(context, "Patient", patient_id, "Read")

Patient_can_update(context, patient_id, patient) ==
    check_resource_access(context, "Patient", patient_id, "Update")

Patient_can_delete(context, patient_id) ==
    check_resource_access(context, "Patient", patient_id, "Delete")

Patient_can_search_Compartment(context) ==
    check_resource_access(context, "Patient", <<"x">>, "Search")

Patient_can_search(context) ==
    check_permission(context, "Patient", "Search")

Patient_can_read_history(context, patient_id) ==
    check_resource_access(context, "Patient", patient_id, "ReadHistory")

(***************************************************************************)
(* Observation / Condition / Encounter AuthorizationRules.  The three rule *)
(* sets have the same text up to the resource type label and the shape of  *)
(* the subject field; kind selects the rule set.                           *)
(***************************************************************************)
\* The "if let Some(patient_id) = extract(...) { compartment check? }" tail.
CompartmentStep(context, subject, permission) ==
    LET patient_id == extract_patient_id_from_reference(subject)
    IN  IF IsSome(patient_id)
        THEN check_patient_compartment_access(context, Unwrap(patient_id),
                                              permission)
        ELSE Ok

can_create_CompartmentFirst(kind, context, resource) ==
    LET compartment ==
            CompartmentStep(context, SubjectOf(kind, resource), "Create")
    IN  IF ~IsOk(compartment) THEN compartment
        ELSE check_permission(context, kind, "Create")

can_create(kind, context, resource) ==
    LET base == check_permission(context, kind, "Create")
    IN  IF ~IsOk(base) THEN base
        ELSE CompartmentStep(context, SubjectOf(kind, resource), "Create")

can_read_NoCompartment(kind, context, id, resource) ==
    check_resource_access(context, kind, id, "Read")

can_read(kind, context, id, resource) ==
    LET base == check_resource_access(context, kind, id, "Read")
    IN  IF ~IsOk(base) THEN base
        ELSE IF IsSome(resource)
             THEN CompartmentStep(context, SubjectOf(kind, Unwrap(resource)),
                                  "Read")
             ELSE Ok

can_update(kind, context, id, resource) ==
    LET base == check_resource_access(context, kind, id, "Update")
    IN  IF ~IsOk(base) THEN base
        ELSE CompartmentStep(context, SubjectOf(kind, resource), "Update")

can_delete(kind, context, id, resource) ==
    LET base == check_resource_access(context, kind, id, "Delete")
    IN  IF ~IsOk(base) THEN base
        ELSE IF IsSome(resource)
             THEN CompartmentStep(context, SubjectOf(kind, Unwrap(resource)),
                                  "Delete")
             ELSE Ok

can_search_NoFilterCheck(kind, context, patient_id) ==
    check_permission(context, kind, "Search")

can_search(kind, context, patient_id) ==
    LET base == check_permission(context, kind, "Search")
    IN  IF ~IsOk(base) THEN base
        ELSE IF IsSome(patient_id)
             THEN check_patient_compartment_access(context, Unwrap(patient_id),
                                                   "Search")
             ELSE Ok

(***************************************************************************)
(* Input domains                                                           *)
(***************************************************************************)
\* user_id strings are written like every other string, as their segments.
UserIds == {<<"u1">>}

OptPatientIds == {None} \cup {Some(x) : x \in PatientIds}

\* Every context the constructors and Claims::to_security_context can build:
\* any role set, with or without a patient id, and the fixed system context.
Contexts ==
    {[user_id |-> u, roles |-> rs, patient_id |-> pid, organization_id |-> None] :
        u \in UserIds, rs \in SUBSET Role, pid \in OptPatientIds}
    \cup {SecurityContext_system}

\* Id arguments: the patient ids, one id that is a whole reference string
\* and one that is no UUID.
IdArgs == PatientIds \cup {<<"Patient", IdNames[1]>>, <<"x">>}

\* Reference strings: well-formed "Patient/<id>", a bare id, another
\* resource type, three segments.
RefStrings ==
    {<<"Patient", x[1]>> : x \in PatientIds}
    \cup {<<IdNames[1]>>, <<"Practitioner", IdNames[1]>>,
          <<"Patient", IdNames[1], "x">>}

References == {Reference(None)} \cup {Reference(Some(s)) : s \in RefStrings}

ResourcesOf(kind) ==
    CASE kind = "Condition" -> {[subject |-> r] : r \in References}
      [] kind = "Patient" -> {[subject |-> None]}
      [] OTHER -> {[subject |-> None]} \cup {[subject |-> Some(r)] : r \in References}

OptResourcesOf(kind) == {None} \cup {Some(r) : r \in ResourcesOf(kind)}

(***************************************************************************)
(* The authorization core exercised in isolation: each action applies one  *)
(* check to inputs drawn from the domains above and records the call in    *)
(* chk; DiscardCheck then forgets it.                                      *)
(***************************************************************************)
NoCheck ==
    [op |-> "none", ruleset |-> "none", context |-> SecurityContext_system,
     resource_type |-> "none", id |-> None, permission |-> "none",
     resource |-> None, result |-> Ok]

NoCall == [op |-> "none"]

EmptyDb == <<>>

\* Request tasks that may be inside a repository call at the same time.
Procs == 1..NumProcs

IdleCall == [pc |-> "idle"]

\* Nothing in the history table, no call in flight, no update acknowledged.
InitStore ==
    /\ history = <<>>
    /\ calls = [p \in Procs |-> IdleCall]
    /\ acked = [n \in 1..Len(IdNames) |-> 0]

InitAuth ==
    /\ chk = NoCheck
    /\ svc = "Patient"
    /\ db = EmptyDb
    /\ last = NoCall
    /\ InitStore

Record(op, ruleset, context, resource_type, id, permission, resource, result) ==
    /\ chk' = [op |-> op, ruleset |-> ruleset, context |-> context,
               resource_type |-> resource_type, id |-> id,
               permission |-> permission, resource |-> resource,
               result |-> result]
    /\ UNCHANGED <<svc, db, last, store>>

CheckPermission ==
    /\ chk = NoCheck
    /\ \E context \in Contexts, rt \in ResourceTypes, p \in Permission :
        Record("check_permission", "Authorizer", context, rt, None, p, None,
               check_permission(context, rt, p))

CheckResourceAccess ==
    /\ chk = NoCheck
    /\ \E context \in Contexts, rt \in ResourceTypes, id \in IdArgs, p \in Permission :
        Record("check_resource_access", "Authorizer", context, rt, Some(id), p,
               None, check_resource_access(context, rt, id, p))

CheckPatientCompartmentAccess ==
    /\ chk = NoCheck
    /\ \E context \in Contexts, id \in IdArgs, p \in Permission :
        Record("check_patient_compartment_access", "Authorizer", context,
               "Patient", Some(id), p, None,
               check_patient_compartment_access(context, id, p))

PatientRule ==
    /\ chk = NoCheck
    /\ \E context \in Contexts, id \in IdArgs, patient \in ResourcesOf("Patient") :
        \/ Record("can_create", "Patient", context, "Patient", None, "Create",
                  Some(patient), Patient_can_create(context, patient))
        \/ Record("can_read", "Patient", context, "Patient", Some(id), "Read",
                  None, Patient_can_read(context, id))
        \/ Record("can_update", "Patient", context, "Patient", Some(id),
                  "Update", Some(patient), Patient_can_update(context, id, patient))
        \/ Record("can_delete", "Patient", context, "Patient", Some(id),
                  "Delete", None, Patient_can_delete(context, id))
        \/ Record("can_search", "Patient", context, "Patient", None, "Search",
                  None, Patient_can_search(context))
        \/ Record("can_read_history", "Patient", context, "Patient", Some(id),
                  "ReadHistory", None, Patient_can_read_history(context, id))

RuleCreate ==
    /\ chk = NoCheck
    /\ \E kind \in CompartmentKinds, context \in Contexts :
        \E resource \in ResourcesOf(kind) :
            Record("can_create", kind, context, kind, None, "Create",
                   Some(resource), can_create(kind, context, resource))

RuleRead ==
    /\ chk = NoCheck
    /\ \E kind \in CompartmentKinds, context \in Contexts, id \in IdArgs :
        \E resource \in OptResourcesOf(kind) :
            Record("can_read", kind, context, kind, Some(id), "Read", resource,
                   can_read(kind, context, id, resource))

RuleUpdate ==
    /\ chk = NoCheck
    /\ \E kind \in CompartmentKinds, context \in Contexts, id \in IdArgs :
        \E resource \in ResourcesOf(kind) :
            Record("can_update", kind, context, kind, Some(id), "Update",
                   Some(resource), can_update(kind, context, id, resource))

RuleDelete ==
    /\ chk = NoCheck
    /\ \E kind \in CompartmentKinds, context \in Contexts, id \in IdArgs :
        \E resource \in OptResourcesOf(kind) :
            Record("can_delete", kind, context, kind, Some(id), "Delete",
                   resource, can_delete(kind, context, id, resource))

\* can_search takes the patient-id filter where the others take an id.
RuleSearch ==
    /\ chk = NoCheck
    /\ \E kind \in CompartmentKinds, context \in Contexts :
        \E filter \in {None} \cup {Some(x) : x \in IdArgs} :
            Record("can_search", kind, context, kind, filter, "Search", None,
                   can_search(kind, context, filter))

\* The helper of the rule sets applied on its own: the subject goes in
\* resource, the extracted id comes back in id.
ExtractPatientId ==
    /\ chk = NoCheck
    /\ \E reference \in {None} \cup {Some(r) : r \in References} :
        Record("extract_patient_id_from_reference", "none",
               SecurityContext_system, "none",
               extract_patient_id_from_reference(reference), "none",
               reference, Ok)

\* The recorded call is dropped; the checks keep no state between calls.
DiscardCheck ==
    /\ chk # NoCheck
    /\ chk' = NoCheck
    /\ UNCHANGED <<svc, db, last, store>>

NextAuth ==
    \/ CheckPermission
    \/ CheckResourceAccess
    \/ CheckPatientCompartmentAccess
    \/ PatientRule
    \/ RuleCreate
    \/ RuleRead
    \/ RuleUpdate
    \/ RuleDelete
    \/ RuleSearch
    \/ ExtractPatientId
    \/ DiscardCheck

SpecAuth == InitAuth /\ [][NextAuth]_vars

(***************************************************************************)
(* Repositories.  svc is the resource kind of the service under            *)
(* consideration and db its current table: the four services own separate  *)
(* tables and never read one another's.  Row n of db is the resource with  *)
(* the n-th generated id; deleted is "deleted_at IS NOT NULL".             *)
(* A resource is its subject and the one scalar the searches filter on     *)
(* (code): Observation.code.coding[0].code, Condition.clinicalStatus,      *)
(* Encounter.status.                                                       *)
(***************************************************************************)
Err(kind) == [kind |-> kind]

NotFound == Err("NotFound")

ResIds == {<<IdNames[i]>> : i \in 1..MaxResources}

IdIndex(id) == CHOOSE n \in 1..Len(IdNames) : IdNames[n] = id[1]

\* ref_str.split('/').last().and_then(|id| Uuid::parse_str(id).ok())
extract_search_fields(kind, resource) ==
    LET subject == SubjectOf(kind, resource)
    IN  [subject_id |->
            IF IsSome(subject) /\ IsSome(Unwrap(subject).reference)
            THEN LET ref_str == Unwrap(Unwrap(subject).reference)
                     id == <<ref_str[Len(ref_str)]>>
                 IN  IF IsUuid(id) THEN Some(id) ELSE None
            ELSE None,
         code |-> resource.code]

\* The rows a SELECT ... WHERE deleted_at IS NULL sees.
LiveRows(table) == {n \in 1..Len(table) : ~table[n].deleted}

Repository_read_IgnoreDeleted(table, id) ==
    IF ~IsUuid(id)
    THEN [result |-> Err("InvalidReference"), value |-> None]
    ELSE LET n == IdIndex(id)
         IN  [result |-> Ok,
              value |-> IF n \in 1..Len(table)
                        THEN Some(table[n].resource)
                        ELSE None]

Repository_read(table, id) ==
    IF ~IsUuid(id)
    THEN [result |-> Err("InvalidReference"), value |-> None]
    ELSE LET n == IdIndex(id)
         IN  [result |-> Ok,
              value |-> IF n \in LiveRows(table)
                        THEN Some(table[n].resource)
                        ELSE None]

\* Uuid::new_v4 is the next unused id; version 1.
Repository_create(kind, table, resource) ==
    LET id == <<IdNames[Len(table) + 1]>>
        stored == [id |-> id, version |-> 1, subject |-> resource.subject,
                   code |-> resource.code]
    IN  [result |-> Ok,
         value |-> Some(stored),
         db |-> Append(table, [resource |-> stored,
                               fields |-> extract_search_fields(kind, stored),
                               deleted |-> FALSE])]

Repository_update(kind, table, id, resource) ==
    LET current == Repository_read(table, id)
    IN  IF ~IsOk(current.result)
        THEN [result |-> current.result, value |-> None, db |-> table]
        ELSE IF ~IsSome(current.value)
        THEN [result |-> NotFound, value |-> None, db |-> table]
        ELSE LET n == IdIndex(id)
                 updated == [id |-> id,
                             version |-> Unwrap(current.value).version + 1,
                             subject |-> resource.subject,
                             code |-> resource.code]
             IN  [result |-> Ok,
                  value |-> Some(updated),
                  db |-> [table EXCEPT ![n] =
                             [resource |-> updated,
                              fields |-> extract_search_fields(kind, updated),
                              deleted |-> FALSE]]]

Repository_delete(table, id) ==
    IF ~IsUuid(id)
    THEN [result |-> Err("InvalidReference"), db |-> table]
    ELSE LET n == IdIndex(id)
         IN  IF n \in LiveRows(table)
             THEN [result |-> Ok, db |-> [table EXCEPT ![n].deleted = TRUE]]
             ELSE [result |-> NotFound, db |-> table]

\* LIMIT 100 OFFSET 0 (the defaults) returns every live row: the table never
\* holds 100 rows here.
Repository_search(table) ==
    [result |-> Ok, value |-> {table[n].resource : n \in LiveRows(table)}]

Repository_search_by_patient(table, patient_id) ==
    IF ~IsUuid(patient_id)
    THEN [result |-> Err("InvalidReference"), value |-> {}]
    ELSE [result |-> Ok,
          value |-> {table[n].resource :
                        n \in {m \in LiveRows(table) :
                                  table[m].fields.subject_id = Some(patient_id)}}]

\* search_by_code / search_by_clinical_status / search_by_status
Repository_search_by_code(table, code) ==
    [result |-> Ok,
     value |-> {table[n].resource :
                   n \in {m \in LiveRows(table) : table[m].fields.code = code}}]

\* The number of repository writes a table has seen: a create makes version
\* 1, every update adds one, a soft delete sets deleted_at once.
RECURSIVE Writes(_)
Writes(table) ==
    IF table = <<>>
    THEN 0
    ELSE table[1].resource.version + (IF table[1].deleted THEN 1 ELSE 0)
         + Writes(Tail(table))

(***************************************************************************)
(* Resource services.  Each operator is one service method, computed on    *)
(* the table as the code computes it, and yields the FhirResult, the table *)
(* afterwards, the resources handed back and the trace of the repository   *)
(* and rule-set calls the method made, in order.                           *)
(***************************************************************************)
Out(result, table, returned, trace) ==
    [result |-> result, db |-> table, returned |-> returned, trace |-> trace]

ReadEv(id, found) == [ev |-> "read", id |-> id, found |-> found]

AuthEv(method, context, resource, result) ==
    [ev |-> method, context |-> context, resource |-> resource,
     result |-> result]

WriteEv(op) == [ev |-> op]

SearchEv == [ev |-> "search"]

EncounterStatuses ==
    {"planned", "arrived", "triaged", "in-progress", "onleave", "finished",
     "cancelled", "entered-in-error", "unknown"}

ClinicalStatuses ==
    {"active", "recurrence", "relapse", "inactive", "remission", "resolved"}

\* Validator::validate, on the fields the model keeps: a Condition needs a
\* subject reference (the model's Conditions carry no subject identifier),
\* an Encounter a status of the list.
validate(kind, resource) ==
    CASE kind = "Condition" /\ ~IsSome(resource.subject.reference) ->
            Err("MissingRequiredField")
      [] kind = "Encounter" /\ resource.code \notin EncounterStatuses ->
            Err("Validation")
      [] OTHER -> Ok

\* validate_reference on the subject reference, if there is one.
validate_reference(kind, resource) ==
    LET subject == SubjectOf(kind, resource)
    IN  IF IsSome(subject) /\ IsSome(Unwrap(subject).reference)
           /\ Len(Unwrap(Unwrap(subject).reference)) # 2
        THEN Err("InvalidReference")
        ELSE Ok

\* ObservationService / ConditionService / EncounterService :: create
Service_create(kind, table, context, resource) ==
    LET auth == can_create(kind, context, resource)
        t1 == <<AuthEv("can_create", context, Some(resource), auth)>>
    IN  IF ~IsOk(auth) THEN Out(auth, table, {}, t1)
        ELSE IF ~IsOk(validate(kind, resource))
        THEN Out(validate(kind, resource), table, {}, t1)
        ELSE IF ~IsOk(validate_reference(kind, resource))
        THEN Out(validate_reference(kind, resource), table, {}, t1)
        ELSE LET c == Repository_create(kind, table, resource)
             IN  Out(Ok, c.db, {Unwrap(c.value)},
                     Append(t1, WriteEv("repo_create")))

Service_get_CheckBeforeFetch(kind, table, context, id) ==
    LET auth == can_read(kind, context, id, None)
        t1 == <<AuthEv("can_read", context, None, auth)>>
    IN  IF ~IsOk(auth) THEN Out(auth, table, {}, t1)
        ELSE LET r == Repository_read(table, id)
                 t2 == Append(t1, ReadEv(id, IsSome(r.value)))
             IN  IF ~IsOk(r.result) THEN Out(r.result, table, {}, t2)
                 ELSE IF ~IsSome(r.value) THEN Out(NotFound, table, {}, t2)
                 ELSE Out(Ok, table, {Unwrap(r.value)}, t2)

\* ... :: get
Service_get(kind, table, context, id) ==
    LET r == Repository_read(table, id)
        t1 == <<ReadEv(id, IsSome(r.value))>>
    IN  IF ~IsOk(r.result) THEN Out(r.result, table, {}, t1)
        ELSE IF ~IsSome(r.value) THEN Out(NotFound, table, {}, t1)
        ELSE LET auth == can_read(kind, context, id, r.value)
                 t2 == Append(t1, AuthEv("can_read", context, r.value, auth))
             IN  IF ~IsOk(auth) THEN Out(auth, table, {}, t2)
                 ELSE Out(Ok, table, {Unwrap(r.value)}, t2)

Service_update_CheckStored(kind, table, context, id, resource) ==
    LET r == Repository_read(table, id)
        t1 == <<ReadEv(id, IsSome(r.value))>>
    IN  IF ~IsOk(r.result) THEN Out(r.result, table, {}, t1)
        ELSE IF ~IsSome(r.value) THEN Out(NotFound, table, {}, t1)
        ELSE LET auth == can_update(kind, context, id, Unwrap(r.value))
                 t2 == Append(t1, AuthEv("can_update", context, Some(resource),
                                         auth))
             IN  IF ~IsOk(auth) THEN Out(auth, table, {}, t2)
                 ELSE IF ~IsOk(validate(kind, resource))
                 THEN Out(validate(kind, resource), table, {}, t2)
                 ELSE LET u == Repository_update(kind, table, id, resource)
                      IN  Out(u.result, u.db,
                              IF IsOk(u.result) THEN {Unwrap(u.value)} ELSE {},
                              Append(t2, WriteEv("repo_update")))

\* ... :: update
Service_update(kind, table, context, id, resource) ==
    LET r == Repository_read(table, id)
        t1 == <<ReadEv(id, IsSome(r.value))>>
    IN  IF ~IsOk(r.result) THEN Out(r.result, table, {}, t1)
        ELSE IF ~IsSome(r.value) THEN Out(NotFound, table, {}, t1)
        ELSE LET auth == can_update(kind, context, id, resource)
                 t2 == Append(t1, AuthEv("can_update", context, Some(resource),
                                         auth))
             IN  IF ~IsOk(auth) THEN Out(auth, table, {}, t2)
                 ELSE IF ~IsOk(validate(kind, resource))
                 THEN Out(validate(kind, resource), table, {}, t2)
                 ELSE LET u == Repository_update(kind, table, id, resource)
                      IN  Out(u.result, u.db,
                              IF IsOk(u.result) THEN {Unwrap(u.value)} ELSE {},
                              Append(t2, WriteEv("repo_update")))

Service_delete_CheckBeforeFetch(kind, table, context, id) ==
    LET auth == can_delete(kind, context, id, None)
        t1 == <<AuthEv("can_delete", context, None, auth)>>
    IN  IF ~IsOk(auth) THEN Out(auth, table, {}, t1)
        ELSE LET d == Repository_delete(table, id)
             IN  Out(d.result, d.db, {}, Append(t1, WriteEv("repo_delete")))

\* ... :: delete
Service_delete(kind, table, context, id) ==
    LET r == Repository_read(table, id)
        t1 == <<ReadEv(id, IsSome(r.value))>>
    IN  IF ~IsOk(r.result) THEN Out(r.result, table, {}, t1)
        ELSE IF ~IsSome(r.value) THEN Out(NotFound, table, {}, t1)
        ELSE LET auth == can_delete(kind, context, id, r.value)
                 t2 == Append(t1, AuthEv("can_delete", context, r.value, auth))
             IN  IF ~IsOk(auth) THEN Out(auth, table, {}, t2)
                 ELSE LET d == Repository_delete(table, id)
                      IN  Out(d.result, d.db, {},
                              Append(t2, WriteEv("repo_delete")))

\* ... :: search, with the default count and offset
Service_search(kind, table, context) ==
    LET auth == can_search(kind, context, None)
        t1 == <<AuthEv("can_search", context, None, auth)>>
    IN  IF ~IsOk(auth) THEN Out(auth, table, {}, t1)
        ELSE Out(Ok, table, Repository_search(table).value,
                 Append(t1, SearchEv))

\* ... :: search_by_patient; an id of UUID shape is never blank
Service_search_by_patient(kind, table, context, patient_id) ==
    LET auth == can_search(kind, context, Some(patient_id))
        t1 == <<AuthEv("can_search", context, Some(patient_id), auth)>>
    IN  IF ~IsOk(auth) THEN Out(auth, table, {}, t1)
        ELSE LET q == Repository_search_by_patient(table, patient_id)
             IN  Out(q.result, table, q.value, Append(t1, SearchEv))

\* ObservationService::search_by_code,
\* ConditionService::search_by_clinical_status,
\* EncounterService::search_by_status
Service_search_by_code(kind, table, context, code) ==
    LET auth == can_search(kind, context, None)
        t1 == <<AuthEv("can_search", context, None, auth)>>
        listed == CASE kind = "Condition" -> code \in ClinicalStatuses
                    [] kind = "Encounter" -> code \in EncounterStatuses
                    [] OTHER -> TRUE
    IN  IF ~IsOk(auth) THEN Out(auth, table, {}, t1)
        ELSE IF ~listed THEN Out(Err("Validation"), table, {}, t1)
        ELSE Out(Ok, table, Repository_search_by_code(table, code).value,
                 Append(t1, SearchEv))

\* EncounterService::update_status
EncounterService_update_status(table, context, id, new_status) ==
    IF new_status \notin EncounterStatuses
    THEN Out(Err("Validation"), table, {}, <<>>)
    ELSE LET g == Service_get("Encounter", table, context, id)
         IN  IF ~IsOk(g.result) THEN g
             ELSE LET encounter ==
                          [(CHOOSE e \in g.returned : TRUE)
                              EXCEPT !.code = new_status]
                      u == Repository_update("Encounter", table, id, encounter)
                  IN  Out(u.result, u.db,
                          IF IsOk(u.result) THEN {Unwrap(u.value)} ELSE {},
                          Append(g.trace, WriteEv("repo_update")))

(***************************************************************************)
(* PatientService.  The model's Patient resources carry no identifier, so  *)
(* the duplicate-identifier loop of validate_and_create has nothing to do. *)
(***************************************************************************)
PatientService_create(table, context, patient) ==
    LET auth == Patient_can_create(context, patient)
        t1 == <<AuthEv("can_create", context, Some(patient), auth)>>
    IN  IF ~IsOk(auth) THEN Out(auth, table, {}, t1)
        ELSE IF ~IsOk(validate("Patient", patient))
        THEN Out(validate("Patient", patient), table, {}, t1)
        ELSE LET c == Repository_create("Patient", table, patient)
             IN  Out(Ok, c.db, {Unwrap(c.value)},
                     Append(t1, WriteEv("repo_create")))

PatientService_get(table, context, id) ==
    LET auth == Patient_can_read(context, id)
        t1 == <<AuthEv("can_read", context, None, auth)>>
    IN  IF ~IsOk(auth) THEN Out(auth, table, {}, t1)
        ELSE LET r == Repository_read(table, id)
                 t2 == Append(t1, ReadEv(id, IsSome(r.value)))
             IN  IF ~IsOk(r.result) THEN Out(r.result, table, {}, t2)
                 ELSE IF ~IsSome(r.value) THEN Out(NotFound, table, {}, t2)
                 ELSE Out(Ok, table, {Unwrap(r.value)}, t2)

PatientService_update(table, context, id, patient) ==
    LET r == Repository_read(table, id)
        t1 == <<ReadEv(id, IsSome(r.value))>>
    IN  IF ~IsOk(r.result) THEN Out(r.result, table, {}, t1)
        ELSE IF ~IsSome(r.value) THEN Out(NotFound, table, {}, t1)
        ELSE LET auth == Patient_can_update(context, id, patient)
                 t2 == Append(t1, AuthEv("can_update", context, Some(patient),
                                         auth))
             IN  IF ~IsOk(auth) THEN Out(auth, table, {}, t2)
                 ELSE IF ~IsOk(validate("Patient", patient))
                 THEN Out(validate("Patient", patient), table, {}, t2)
                 ELSE LET u == Repository_update("Patient", table, id, patient)
                      IN  Out(u.result, u.db,
                              IF IsOk(u.result) THEN {Unwrap(u.value)} ELSE {},
                              Append(t2, WriteEv("repo_update")))

PatientService_delete(table, context, id) ==
    LET r == Repository_read(table, id)
        t1 == <<ReadEv(id, IsSome(r.value))>>
    IN  IF ~IsOk(r.result) THEN Out(r.result, table, {}, t1)
        ELSE IF ~IsSome(r.value) THEN Out(NotFound, table, {}, t1)
        ELSE LET auth == Patient_can_delete(context, id)
                 t2 == Append(t1, AuthEv("can_delete", context, None, auth))
             IN  IF ~IsOk(auth) THEN Out(auth, table, {}, t2)
                 ELSE LET d == Repository_delete(table, id)
                      IN  Out(d.result, d.db, {},
                              Append(t2, WriteEv("repo_delete")))

\* The SearchParameters' filters are not passed on to the repository.
PatientService_search(table, context, params) ==
    LET auth == Patient_can_search(context)
        t1 == <<AuthEv("can_search", context, None, auth)>>
    IN  IF ~IsOk(auth) THEN Out(auth, table, {}, t1)
        ELSE Out(Ok, table, Repository_search(table).value,
                 Append(t1, SearchEv))

PatientService_conditional_create(table, context, patient, search_params) ==
    LET s == PatientService_search(table, context, search_params)
    IN  IF ~IsOk(s.result) THEN s
        ELSE IF s.returned # {}
        THEN Out(Err("PreconditionFailed"), table, {}, s.trace)
        ELSE LET c == PatientService_create(table, context, patient)
             IN  Out(c.result, c.db, c.returned, s.trace \o c.trace)

PatientService_conditional_update(table, context, patient, search_params) ==
    LET s == PatientService_search(table, context, search_params)
    IN  IF ~IsOk(s.result) THEN s
        ELSE IF s.returned = {}
        THEN LET c == PatientService_create(table, context, patient)
             IN  Out(c.result, c.db, c.returned, s.trace \o c.trace)
        ELSE IF Cardinality(s.returned) = 1
        THEN LET existing == CHOOSE e \in s.returned : TRUE
                 u == PatientService_update(table, context, existing.id, patient)
             IN  Out(u.result, u.db, u.returned, s.trace \o u.trace)
        ELSE Out(Err("PreconditionFailed"), table, {}, s.trace)

(***************************************************************************)
(* The services exercised over a table: svc is fixed by Init, each action  *)
(* is one service call by one caller, applied to the table as it stands,   *)
(* and leaves the call, its outcome and its trace in last; Respond hands   *)
(* the answer back and makes room for the next call.                       *)
(***************************************************************************)
\* The contexts the constructors build for the four kinds of caller, and
\* the one a token with the roles Clinician and Patient gives.
SvcContexts ==
    {SecurityContext_admin(u) : u \in UserIds}
    \cup {SecurityContext_clinician(u, None) : u \in UserIds}
    \cup {SecurityContext_patient(u, x) : u \in UserIds, x \in PatientIds}
    \cup {SecurityContext_system}
    \cup {[SecurityContext_patient(u, <<IdNames[1]>>)
              EXCEPT !.roles = {"Clinician", "Patient"}] : u \in UserIds}

\* Subject reference strings of candidate resources.
SvcRefStrings ==
    {<<"Patient", x[1]>> : x \in PatientIds}
    \cup {<<"Practitioner", IdNames[1]>>}

CandidateCode(kind) ==
    CASE kind = "Observation" -> "c1"
      [] kind = "Condition" -> "active"
      [] kind = "Encounter" -> "planned"
      [] OTHER -> "Doe"

Candidates(kind) ==
    CASE kind = "Condition" ->
            {[subject |-> r, code |-> CandidateCode(kind)] :
                r \in {Reference(None)}
                      \cup {Reference(Some(s)) : s \in SvcRefStrings}}
      [] kind = "Patient" -> {[subject |-> None, code |-> CandidateCode(kind)]}
      [] OTHER ->
            {[subject |-> r, code |-> CandidateCode(kind)] :
                r \in {None}
                      \cup {Some(Reference(Some(s))) : s \in SvcRefStrings}}

CodeArgs(kind) ==
    CASE kind = "Observation" -> {"c1", "c2"}
      [] kind = "Condition" -> {"active", "bogus"}
      [] kind = "Encounter" -> {"planned", "finished", "bogus"}
      [] OTHER -> {}

StatusArgs == {"finished", "bogus"}

\* Ids a caller may name: every id the table can hold and one non-UUID.
SvcIdArgs == ResIds \cup {<<"x">>}

InitSvc ==
    /\ chk = NoCheck
    /\ svc \in ResourceTypes
    /\ db = EmptyDb
    /\ last = NoCall
    /\ InitStore

\* Histories of at most MaxWrites repository writes on at most MaxResources
\* rows are explored.
Call(op, context, id, resource, arg, out) ==
    /\ Len(out.db) <= MaxResources
    /\ Writes(out.db) <= MaxWrites
    /\ last' = [op |-> op, context |-> context, id |-> id,
                resource |-> resource, arg |-> arg, result |-> out.result,
                returned |-> out.returned, trace |-> out.trace]
    /\ db' = out.db
    /\ UNCHANGED <<chk, svc, store>>

SvcCreate ==
    /\ last = NoCall
    /\ svc \in CompartmentKinds
    /\ \E context \in SvcContexts, resource \in Candidates(svc) :
          Call("create", context, None, Some(resource), None,
               Service_create(svc, db, context, resource))

SvcGet ==
    /\ last = NoCall
    /\ svc \in CompartmentKinds
    /\ \E context \in SvcContexts, id \in SvcIdArgs :
          Call("get", context, Some(id), None, None,
               Service_get(svc, db, context, id))

SvcUpdate ==
    /\ last = NoCall
    /\ svc \in CompartmentKinds
    /\ \E context \in SvcContexts, id \in SvcIdArgs,
          resource \in Candidates(svc) :
          Call("update", context, Some(id), Some(resource), None,
               Service_update(svc, db, context, id, resource))

SvcDelete ==
    /\ last = NoCall
    /\ svc \in CompartmentKinds
    /\ \E context \in SvcContexts, id \in SvcIdArgs :
          Call("delete", context, Some(id), None, None,
               Service_delete(svc, db, context, id))

SvcSearch ==
    /\ last = NoCall
    /\ svc \in CompartmentKinds
    /\ \E context \in SvcContexts :
          Call("search", context, None, None, None,
               Service_search(svc, db, context))

SvcSearchByPatient ==
    /\ last = NoCall
    /\ svc \in CompartmentKinds
    /\ \E context \in SvcContexts, patient_id \in PatientIds \cup {<<"x">>} :
          Call("search_by_patient", context, None, None, Some(patient_id),
               Service_search_by_patient(svc, db, context, patient_id))

SvcSearchByCode ==
    /\ last = NoCall
    /\ svc \in CompartmentKinds
    /\ \E context \in SvcContexts, code \in CodeArgs(svc) :
          Call("search_by_code", context, None, None, Some(code),
               Service_search_by_code(svc, db, context, code))

EncounterUpdateStatus ==
    /\ last = NoCall
    /\ svc = "Encounter"
    /\ \E context \in SvcContexts, id \in SvcIdArgs, new_status \in StatusArgs :
          Call("update_status", context, Some(id), None, Some(new_status),
               EncounterService_update_status(db, context, id, new_status))

PatientCreate ==
    /\ last = NoCall
    /\ svc = "Patient"
    /\ \E context \in SvcContexts, patient \in Candidates("Patient") :
          Call("create", context, None, Some(patient), None,
               PatientService_create(db, context, patient))

PatientGet ==
    /\ last = NoCall
    /\ svc = "Patient"
    /\ \E context \in SvcContexts, id \in SvcIdArgs :
          Call("get", context, Some(id), None, None,
               PatientService_get(db, context, id))

PatientUpdate ==
    /\ last = NoCall
    /\ svc = "Patient"
    /\ \E context \in SvcContexts, id \in SvcIdArgs,
          patient \in Candidates("Patient") :
          Call("update", context, Some(id), Some(patient), None,
               PatientService_update(db, context, id, patient))

PatientDelete ==
    /\ last = NoCall
    /\ svc = "Patient"
    /\ \E context \in SvcContexts, id \in SvcIdArgs :
          Call("delete", context, Some(id), None, None,
               PatientService_delete(db, context, id))

\* The search criteria a caller passes: no paging, one filter on the family
\* name (the patient's code field).
FamilyNames == {"Doe", "Roe"}

SvcSearchParameters ==
    {[count |-> None, offset |-> None, sort |-> None,
      filters |-> <<<<"family", f>>>>] : f \in FamilyNames}

PatientSearch ==
    /\ last = NoCall
    /\ svc = "Patient"
    /\ \E context \in SvcContexts, params \in SvcSearchParameters :
          Call("search", context, None, None, Some(params),
               PatientService_search(db, context, params))

PatientConditionalCreate ==
    /\ last = NoCall
    /\ svc = "Patient"
    /\ \E context \in SvcContexts, patient \in Candidates("Patient"),
          search_params \in SvcSearchParameters :
          Call("conditional_create", context, None, Some(patient),
               Some(search_params),
               PatientService_conditional_create(db, context, patient,
                                             search_params))

PatientConditionalUpdate ==
    /\ last = NoCall
    /\ svc = "Patient"
    /\ \E context \in SvcContexts, patient \in Candidates("Patient"),
          search_params \in SvcSearchParameters :
          Call("conditional_update", context, None, Some(patient),
               Some(search_params),
               PatientService_conditional_update(db, context, patient,
                                             search_params))

Respond ==
    /\ last # NoCall
    /\ last' = NoCall
    /\ UNCHANGED <<chk, svc, db, store>>

NextSvc ==
    \/ SvcCreate
    \/ SvcGet
    \/ SvcUpdate
    \/ SvcDelete
    \/ SvcSearch
    \/ SvcSearchByPatient
    \/ SvcSearchByCode
    \/ EncounterUpdateStatus
    \/ PatientCreate
    \/ PatientGet
    \/ PatientUpdate
    \/ PatientDelete
    \/ PatientSearch
    \/ PatientConditionalCreate
    \/ PatientConditionalUpdate
    \/ Respond

SpecSvc == InitSvc /\ [][NextSvc]_vars

(***************************************************************************)
(* The two transports.  A request carries an Authorization header or none; *)
(* a bearer token is its claims, whether its signature verifies and        *)
(* whether its exp has passed.                                             *)
(***************************************************************************)
Claims_new(user_id, roles, patient_id, organization_id) ==
    [sub |-> user_id, roles |-> roles, patient_id |-> patient_id,
     organization_id |-> organization_id]

parse_roles_IgnoreCase(claims) ==
    {r \in claims.roles : r \in Role}
    \cup (IF "admin" \in claims.roles THEN {"Admin"} ELSE {})

\* filter_map over the role strings: the four known names, the rest dropped.
parse_roles(claims) == {r \in claims.roles : r \in Role}

to_security_context(claims) ==
    [user_id |-> claims.sub, roles |-> parse_roles(claims),
     patient_id |-> claims.patient_id,
     organization_id |-> claims.organization_id]

\* decode fails on a bad signature, is_expired on a stale exp; Ok(claims)
\* is Some, either error None.
validate_token(token) ==
    IF token.signed /\ ~token.expired THEN Some(token.claims) ELSE None

\* OptionalAuthUser::from_request_parts
OptionalAuthUser(header) ==
    IF IsSome(header) /\ Unwrap(header).scheme = "Bearer"
    THEN validate_token(Unwrap(header).token)
    ELSE None

extract_optional_security_context_Anonymous(optional_auth) ==
    IF IsSome(optional_auth)
    THEN to_security_context(Unwrap(optional_auth))
    ELSE SecurityContext_new(<<"anonymous">>, {})

extract_optional_security_context(optional_auth) ==
    IF IsSome(optional_auth)
    THEN to_security_context(Unwrap(optional_auth))
    ELSE SecurityContext_system

\* The service method a handler forwards to.
ServiceCall(op, kind, table, context, id, resource) ==
    CASE op = "create" /\ kind = "Patient" ->
            PatientService_create(table, context, resource)
      [] op = "get" /\ kind = "Patient" ->
            PatientService_get(table, context, id)
      [] op = "update" /\ kind = "Patient" ->
            PatientService_update(table, context, id, resource)
      [] op = "delete" /\ kind = "Patient" ->
            PatientService_delete(table, context, id)
      [] op = "create" /\ kind # "Patient" ->
            Service_create(kind, table, context, resource)
      [] op = "get" /\ kind # "Patient" ->
            Service_get(kind, table, context, id)
      [] op = "update" /\ kind # "Patient" ->
            Service_update(kind, table, context, id, resource)
      [] op = "delete" /\ kind # "Patient" ->
            Service_delete(kind, table, context, id)

\* api/handlers: create_*, get_*, update_*, delete_*
Http_handler(op, kind, table, header, id, resource) ==
    ServiceCall(op, kind, table,
                extract_optional_security_context(OptionalAuthUser(header)),
                id, resource)

\* grpc/services.rs: create_*, get_*, update_*, delete_*; the request
\* metadata is not read.
Grpc_handler(op, kind, table, header, id, resource) ==
    ServiceCall(op, kind, table, SecurityContext_system, id, resource)

\* map_err: get_* answers Status::not_found, the others Status::internal.
GrpcStatus(op, result) ==
    IF IsOk(result) THEN Ok
    ELSE [kind |-> "Status",
          code |-> IF op = "get" THEN "NotFound" ELSE "Internal"]

TokenClaims ==
    {Claims_new(u, {"Admin"}, None, None) : u \in UserIds}
    \cup {Claims_new(u, {"Clinician"}, None, None) : u \in UserIds}
    \cup {Claims_new(u, {"Patient"}, Some(x), None) :
             u \in UserIds, x \in PatientIds}
    \cup {Claims_new(<<"system">>, {"System"}, None, None)}
    \cup {Claims_new(u, {"Nurse"}, None, None) : u \in UserIds}

Header(scheme, claims, signed, expired) ==
    Some([scheme |-> scheme,
          token |-> [claims |-> claims, signed |-> signed, expired |-> expired]])

Headers ==
    {None}
    \cup {Header("Bearer", c, TRUE, FALSE) : c \in TokenClaims}
    \cup {Header("Bearer", Claims_new(u, {"Admin"}, None, None), FALSE, FALSE) :
             u \in UserIds}
    \cup {Header("Bearer", Claims_new(u, {"Admin"}, None, None), TRUE, TRUE) :
             u \in UserIds}
    \cup {Header("Basic", Claims_new(u, {"Admin"}, None, None), TRUE, FALSE) :
             u \in UserIds}

\* What a request of the given operation carries besides its header.
OpIds(op) == IF op = "create" THEN {None} ELSE {Some(id) : id \in SvcIdArgs}

OpBodies(op, kind) ==
    IF op \in {"create", "update"}
    THEN {Some(r) : r \in Candidates(kind)}
    ELSE {None}

Arg(o) == IF IsSome(o) THEN Unwrap(o) ELSE None

ApiCall(transport, op, header, id, resource, out, result) ==
    /\ Len(out.db) <= MaxResources
    /\ Writes(out.db) <= MaxWrites
    /\ last' = [op |-> op, transport |-> transport, header |-> header,
                id |-> id, resource |-> resource, result |-> result,
                returned |-> out.returned]
    /\ db' = out.db
    /\ UNCHANGED <<chk, svc, store>>

HttpRequest(op) ==
    /\ last = NoCall
    /\ \E header \in Headers, id \in OpIds(op), resource \in OpBodies(op, svc) :
          LET out == Http_handler(op, svc, db, header, Arg(id), Arg(resource))
          IN  ApiCall("http", op, header, id, resource, out, out.result)

GrpcRequest(op) ==
    /\ last = NoCall
    /\ \E header \in Headers, id \in OpIds(op), resource \in OpBodies(op, svc) :
          LET out == Grpc_handler(op, svc, db, header, Arg(id), Arg(resource))
          IN  ApiCall("grpc", op, header, id, resource, out,
                      GrpcStatus(op, out.result))

HttpCreate == HttpRequest("create")

HttpGet == HttpRequest("get")

HttpUpdate == HttpRequest("update")

HttpDelete == HttpRequest("delete")

GrpcCreate == GrpcRequest("create")

GrpcGet == GrpcRequest("get")

GrpcUpdate == GrpcRequest("update")

GrpcDelete == GrpcRequest("delete")

NextApi ==
    \/ HttpCreate
    \/ HttpGet
    \/ HttpUpdate
    \/ HttpDelete
    \/ GrpcCreate
    \/ GrpcGet
    \/ GrpcUpdate
    \/ GrpcDelete
    \/ Respond

SpecApi == InitSvc /\ [][NextApi]_vars

(***************************************************************************)
(* Identity: contexts built from claims and from request headers, each     *)
(* conversion applied on its own and recorded in last.                     *)
(***************************************************************************)
\* grpc/auth.rs extract_security_context: Ok(context) is Some, every
\* Status::unauthenticated None.
Grpc_extract_security_context(header) ==
    IF ~IsSome(header) THEN None
    ELSE IF Unwrap(header).scheme # "Bearer" THEN None
    ELSE LET claims == validate_token(Unwrap(header).token)
         IN  IF IsSome(claims)
             THEN Some(to_security_context(Unwrap(claims)))
             ELSE None

\* unwrap_or_else(|_| SecurityContext::system())
extract_security_context_optional(header) ==
    LET context == Grpc_extract_security_context(header)
    IN  IF IsSome(context) THEN Unwrap(context) ELSE SecurityContext_system

\* Role strings a token may carry: the four names, one in another case, one
\* unknown.
RoleStrings == Role \cup {"admin", "Nurse"}

OrganizationIds == {None, Some(<<"org1">>)}

IdentityClaims ==
    {Claims_new(u, rs, pid, org) :
        u \in UserIds, rs \in SUBSET RoleStrings, pid \in OptPatientIds,
        org \in OrganizationIds}

IdentityHeaders ==
    {None}
    \cup {Header(scheme, c, signed, expired) :
            scheme \in {"Bearer", "Basic"}, c \in IdentityClaims,
            signed \in BOOLEAN, expired \in BOOLEAN}

ToSecurityContext ==
    /\ last = NoCall
    /\ \E claims \in IdentityClaims :
          last' = [op |-> "to_security_context", claims |-> claims,
                   context |-> to_security_context(claims)]
    /\ UNCHANGED <<chk, svc, db, store>>

HttpOptionalContext ==
    /\ last = NoCall
    /\ \E header \in IdentityHeaders :
          last' = [op |-> "extract_optional_security_context",
                   header |-> header,
                   context |-> extract_optional_security_context(
                                   OptionalAuthUser(header))]
    /\ UNCHANGED <<chk, svc, db, store>>

GrpcOptionalContext ==
    /\ last = NoCall
    /\ \E header \in IdentityHeaders :
          last' = [op |-> "extract_security_context_optional",
                   header |-> header,
                   context |-> extract_security_context_optional(header)]
    /\ UNCHANGED <<chk, svc, db, store>>

NextIdentity ==
    \/ ToSecurityContext
    \/ HttpOptionalContext
    \/ GrpcOptionalContext
    \/ Respond

SpecIdentity == InitAuth /\ [][NextIdentity]_vars

(***************************************************************************)
(* The repository at the grain of its SQL statements.  A repository method *)
(* is a series of statements on the connection pool with no transaction    *)
(* around them: each statement is one step, and statements of calls made   *)
(* by different request tasks interleave.  db is the current table,        *)
(* history the *_history table, calls[p] the call task p is in.            *)
(***************************************************************************)
StoreResources == {[subject |-> None, code |-> c] : c \in {"Doe", "Roe"}}

HistoryRow(id, version_id, resource, operation) ==
    [id |-> id, version_id |-> version_id, resource |-> resource,
     operation |-> operation]

Done(op, id, result, value) ==
    [pc |-> "done", op |-> op, id |-> id, result |-> result, value |-> value]

Deleted(table) == {n \in 1..Len(table) : table[n].deleted}

\* Calls between their first statement and their INSERT into the history.
Writing == {p \in Procs : calls[p].pc \in {"create_history", "update_write",
                                            "update_history"}}

\* Histories of at most MaxWrites writes are explored.
WriteRoom ==
    Len(history) + Cardinality(Deleted(db)) + Cardinality(Writing) < MaxWrites

\* A task enters a call when it is in none; in a sequential series of calls
\* only when no other task is in one either.
MayStart(p, sequential) ==
    /\ calls[p].pc = "idle"
    /\ sequential => \A q \in Procs : calls[q].pc = "idle"

SetCall(p, call) == calls' = [calls EXCEPT ![p] = call]

\* SELECT resource FROM <kind>_history WHERE id = $1 ORDER BY version_id DESC
RECURSIVE OrderByVersionDesc(_)
OrderByVersionDesc(rows) ==
    IF rows = <<>> THEN <<>>
    ELSE LET top == CHOOSE i \in 1..Len(rows) :
                        \A j \in 1..Len(rows) :
                            /\ rows[j].version_id <= rows[i].version_id
                            /\ rows[j].version_id = rows[i].version_id => i <= j
             rest == [k \in 1..(Len(rows) - 1) |->
                         IF k < top THEN rows[k] ELSE rows[k + 1]]
         IN  <<rows[top]>> \o OrderByVersionDesc(rest)

HistoryOf(id) == SelectSeq(history, LAMBDA row : row.id = id)

Repository_get_history(id) ==
    IF ~IsUuid(id)
    THEN [result |-> Err("InvalidReference"), value |-> <<>>]
    ELSE [result |-> Ok,
          value |-> LET rows == OrderByVersionDesc(HistoryOf(id))
                    IN  [k \in 1..Len(rows) |-> rows[k].resource]]

new_version_Unchanged(current) == current.version

\* current_version + 1, current_version parsed from the row's meta.versionId
new_version(current) == current.version + 1

\* create, first statement: INSERT INTO <kind> with a fresh id, version 1.
CreateInsert(sequential) ==
    \E p \in Procs, resource \in StoreResources :
        /\ MayStart(p, sequential)
        /\ WriteRoom
        /\ Len(db) < MaxResources
        /\ LET c == Repository_create(svc, db, resource)
           IN  /\ db' = c.db
               /\ SetCall(p, [pc |-> "create_history", op |-> "create",
                              id |-> Unwrap(c.value).id,
                              resource |-> Unwrap(c.value)])
        /\ UNCHANGED <<chk, svc, last, history, acked>>

\* create, second statement: INSERT INTO <kind>_history (.., 1, .., 'CREATE').
CreateHistory ==
    \E p \in Procs :
        /\ calls[p].pc = "create_history"
        /\ history' = Append(history, HistoryRow(calls[p].id, 1,
                                                 calls[p].resource, "CREATE"))
        /\ SetCall(p, Done("create", calls[p].id, Ok, Some(calls[p].resource)))
        /\ UNCHANGED <<chk, svc, db, last, acked>>

\* read: one SELECT.
ReadCall(sequential) ==
    \E p \in Procs, id \in SvcIdArgs :
        /\ MayStart(p, sequential)
        /\ LET r == Repository_read(db, id)
           IN  SetCall(p, Done("read", id, r.result, r.value))
        /\ UNCHANGED <<chk, svc, db, last, history, acked>>

\* update, up to its first statement: Uuid::parse_str, then self.read(id);
\* new_version is the version read plus one.
UpdateRead(sequential) ==
    \E p \in Procs, id \in SvcIdArgs, resource \in StoreResources :
        /\ MayStart(p, sequential)
        /\ LET current == Repository_read(db, id)
           IN  IF ~IsOk(current.result)
               THEN SetCall(p, Done("update", id, current.result, None))
               ELSE IF ~IsSome(current.value)
               THEN SetCall(p, Done("update", id, NotFound, None))
               ELSE /\ WriteRoom
                    /\ SetCall(p, [pc |-> "update_write", op |-> "update",
                                   id |-> id,
                                   resource |->
                                      [id |-> id,
                                       version |->
                                          new_version(Unwrap(current.value)),
                                       subject |-> resource.subject,
                                       code |-> resource.code]])
        /\ UNCHANGED <<chk, svc, db, last, history, acked>>

\* update, second statement: UPDATE <kind> SET resource, version_id, ..
\* WHERE id = $1 AND deleted_at IS NULL.  The number of rows affected is not
\* looked at.  replaced is the version the statement overwrote, if any.
UpdateWrite ==
    \E p \in Procs :
        /\ calls[p].pc = "update_write"
        /\ LET n == IdIndex(calls[p].id)
               updated == calls[p].resource
           IN  IF n \in LiveRows(db)
               THEN /\ db' = [db EXCEPT ![n] =
                                 [resource |-> updated,
                                  fields |-> extract_search_fields(svc, updated),
                                  deleted |-> FALSE]]
                    /\ SetCall(p, [pc |-> "update_history", op |-> "update",
                                   id |-> calls[p].id, resource |-> updated,
                                   replaced |-> Some(db[n].resource.version)])
               ELSE /\ db' = db
                    /\ SetCall(p, [pc |-> "update_history", op |-> "update",
                                   id |-> calls[p].id, resource |-> updated,
                                   replaced |-> None])
        /\ UNCHANGED <<chk, svc, last, history, acked>>

\* update, third statement: INSERT INTO <kind>_history (.., 'UPDATE'), then
\* Ok(updated).  The table's keys are declared outside the source: a row
\* whose (id, version_id) is already there is either stored or refused, and
\* a refusal is returned as FhirError::Database.
UpdateHistory ==
    \E p \in Procs :
        /\ calls[p].pc = "update_history"
        /\ LET row == HistoryRow(calls[p].id, calls[p].resource.version,
                                 calls[p].resource, "UPDATE")
               duplicate == \E k \in 1..Len(history) :
                               /\ history[k].id = row.id
                               /\ history[k].version_id = row.version_id
           IN  \/ /\ history' = Append(history, row)
                  /\ acked' = [acked EXCEPT ![IdIndex(row.id)] = @ + 1]
                  /\ SetCall(p, [pc |-> "done", op |-> "update",
                                 id |-> row.id, result |-> Ok,
                                 value |-> Some(calls[p].resource),
                                 replaced |-> calls[p].replaced])
               \/ /\ duplicate
                  /\ UNCHANGED <<history, acked>>
                  /\ SetCall(p, Done("update", row.id, Err("Database"), None))
        /\ UNCHANGED <<chk, svc, db, last>>

\* delete: one UPDATE .. SET deleted_at = NOW() WHERE id = $1 AND
\* deleted_at IS NULL; NotFound when it affects no row.
DeleteCall(sequential) ==
    \E p \in Procs, id \in SvcIdArgs :
        /\ MayStart(p, sequential)
        /\ LET d == Repository_delete(db, id)
           IN  /\ IsOk(d.result) => WriteRoom
               /\ db' = d.db
               /\ SetCall(p, Done("delete", id, d.result, None))
        /\ UNCHANGED <<chk, svc, last, history, acked>>

\* search with the default limit and offset: one SELECT.
SearchCall(sequential) ==
    \E p \in Procs :
        /\ MayStart(p, sequential)
        /\ SetCall(p, Done("search", None, Ok, Repository_search(db).value))
        /\ UNCHANGED <<chk, svc, db, last, history, acked>>

\* get_history: one SELECT.
GetHistoryCall(sequential) ==
    \E p \in Procs, id \in SvcIdArgs :
        /\ MayStart(p, sequential)
        /\ LET h == Repository_get_history(id)
           IN  SetCall(p, Done("get_history", id, h.result, h.value))
        /\ UNCHANGED <<chk, svc, db, last, history, acked>>

\* The caller takes the result.
ReturnCall ==
    \E p \in Procs :
        /\ calls[p].pc = "done"
        /\ SetCall(p, IdleCall)
        /\ UNCHANGED <<chk, svc, db, last, history, acked>>

\* One call at a time.
NextRepoSeq ==
    \/ CreateInsert(TRUE)
    \/ CreateHistory
    \/ ReadCall(TRUE)
    \/ UpdateRead(TRUE)
    \/ UpdateWrite
    \/ UpdateHistory
    \/ DeleteCall(TRUE)
    \/ SearchCall(TRUE)
    \/ GetHistoryCall(TRUE)
    \/ ReturnCall

SpecRepoSeq == InitAuth /\ [][NextRepoSeq]_vars

\* Calls of up to NumProcs request tasks, interleaved statement by statement.
NextRepo ==
    \/ CreateInsert(FALSE)
    \/ CreateHistory
    \/ ReadCall(FALSE)
    \/ UpdateRead(FALSE)
    \/ UpdateWrite
    \/ UpdateHistory
    \/ DeleteCall(FALSE)
    \/ SearchCall(FALSE)
    \/ GetHistoryCall(FALSE)
    \/ ReturnCall

SpecRepo == InitAuth /\ [][NextRepo]_vars

(***************************************************************************)
(* Claims about the authorization core (checked under SpecAuth)            *)
(***************************************************************************)
\* The role -> permission table as section 3 of the specification states it.
Matrix(r) ==
    CASE r = "Admin" -> Permission
      [] r = "System" -> Permission
      [] r = "Clinician" -> Permission \ {"Delete"}
      [] r = "Patient" -> {"Read", "Search", "ReadHistory"}

BuiltByPatient(context) ==
    \E u \in UserIds, x \in PatientIds : context = SecurityContext_patient(u, x)

\* C1: check_permission on a context holding exactly one role r succeeds iff
\* the permission is in Matrix(r), and every other pair yields Forbidden.
C1_SingleRoleMatrix ==
    (chk.op = "check_permission" /\ Cardinality(chk.context.roles) = 1) =>
        LET r == CHOOSE x \in chk.context.roles : TRUE
        IN  /\ IsOk(chk.result) <=> chk.permission \in Matrix(r)
            /\ ~IsOk(chk.result) => IsForbidden(chk.result)

C1_Witness ==
    /\ chk.op = "check_permission"
    /\ chk.context.roles = {"Clinician"}
    /\ chk.permission = "Delete"
    /\ IsForbidden(chk.result)

\* C2: for every role set, check_permission succeeds iff some held role
\* grants the permission in the matrix; a context with no role is refused by
\* every check.
C2_AnyRoleGrants ==
    /\ chk.op = "check_permission" =>
        /\ IsOk(chk.result) <=>
              \E r \in chk.context.roles : chk.permission \in Matrix(r)
        /\ ~IsOk(chk.result) => IsForbidden(chk.result)
    /\ (chk.op # "none" /\ chk.context.roles = {}) => IsForbidden(chk.result)

C2_Witness ==
    /\ chk.op = "check_permission"
    /\ chk.context.roles = {"Patient", "Clinician"}
    /\ chk.permission = "Create"
    /\ IsOk(chk.result)

\* C3: for a context built by patient(uid, x), read access to Patient y
\* (check_resource_access with Read, can_read, can_read_history) succeeds
\* iff y = x; a Patient-role context without Admin or System and without a
\* patient_id is refused for every y.
C3_ReadsOfPatient ==
    \/ /\ chk.op = "check_resource_access"
       /\ chk.resource_type = "Patient"
       /\ chk.permission = "Read"
    \/ /\ chk.ruleset = "Patient"
       /\ chk.op \in {"can_read", "can_read_history"}

C3_PatientOwnResource ==
    C3_ReadsOfPatient =>
        /\ BuiltByPatient(chk.context) =>
              /\ IsOk(chk.result) <=> chk.id = chk.context.patient_id
              /\ ~IsOk(chk.result) => IsForbidden(chk.result)
        /\ ( /\ is_patient(chk.context)
             /\ ~is_admin(chk.context)
             /\ ~is_system(chk.context)
             /\ chk.context.patient_id = None ) => IsForbidden(chk.result)

C3_Witness ==
    /\ chk.op = "can_read_history"
    /\ BuiltByPatient(chk.context)
    /\ chk.id # chk.context.patient_id
    /\ chk.id \in {Some(x) : x \in PatientIds}
    /\ IsForbidden(chk.result)

\* C4: for a context built by patient(uid, x), compartment access to
\* patient y with Read, Search or ReadHistory succeeds iff y and x are the
\* same string.
C4_CompartmentOwnOnly ==
    ( /\ chk.op = "check_patient_compartment_access"
      /\ BuiltByPatient(chk.context)
      /\ chk.permission \in {"Read", "Search", "ReadHistory"} ) =>
        /\ IsOk(chk.result) <=> chk.id = chk.context.patient_id
        /\ ~IsOk(chk.result) => IsForbidden(chk.result)

\* The requested id "Patient/p1" against the caller's own id "p1".
C4_Witness ==
    /\ chk.op = "check_patient_compartment_access"
    /\ chk.context = SecurityContext_patient(<<"u1">>, <<IdNames[1]>>)
    /\ chk.id = Some(<<"Patient", IdNames[1]>>)
    /\ chk.permission = "Search"
    /\ IsForbidden(chk.result)

\* C10: a context holding Admin or System, with whatever other roles and
\* patient_id, passes every Authorizer check and every rule-set method.
C10_AdminSystemPass ==
    ( /\ chk.op # "none"
      /\ (is_admin(chk.context) \/ is_system(chk.context)) ) => IsOk(chk.result)

\* An Admin who also holds the Patient role, for patient p1, on Patient p2.
C10_Witness ==
    /\ chk.op = "can_delete"
    /\ chk.ruleset = "Patient"
    /\ chk.context.roles = {"Admin", "Patient"}
    /\ chk.context.patient_id = Some(<<IdNames[1]>>)
    /\ chk.id = Some(<<IdNames[2]>>)
    /\ IsOk(chk.result)

(***************************************************************************)
(* Service-level claims, over the call held in last                        *)
(***************************************************************************)
PatientRef(y) == Reference(Some(<<"Patient">> \o y))

\* The live row a call names by id, as a set of at most one row index.
NamedRows == {n \in LiveRows(db) : Some(db[n].resource.id) = last.id}

\* C5: for a context built by patient(uid, x) and an Observation, Condition
\* or Encounter stored with subject reference "Patient/y", can_read on the
\* stored resource, and with it the service's get, is Forbidden when y
\* differs from x and succeeds, returning the resource, when y = x.
C5_GetFollowsCompartment ==
    (last.op = "get" /\ svc \in CompartmentKinds /\ BuiltByPatient(last.context)) =>
        \A n \in NamedRows, y \in PatientIds :
            SubjectOf(svc, db[n].resource) = Some(PatientRef(y)) =>
                LET x == Unwrap(last.context.patient_id)
                    rule == can_read(svc, last.context, Unwrap(last.id),
                                     Some(db[n].resource))
                IN  /\ rule = last.result
                    /\ y = x => IsOk(last.result)
                                /\ last.returned = {db[n].resource}
                    /\ y # x => IsForbidden(last.result) /\ last.returned = {}

\* C5 witness: a patient's get of a stored resource of another patient's
\* compartment was refused.
C5_Witness ==
    /\ last.op = "get"
    /\ svc \in CompartmentKinds
    /\ BuiltByPatient(last.context)
    /\ IsForbidden(last.result)
    /\ \E n \in NamedRows, y \in PatientIds :
          /\ SubjectOf(svc, db[n].resource) = Some(PatientRef(y))
          /\ Some(y) # last.context.patient_id

ReadOps == {"get", "search", "search_by_patient", "search_by_code"}

\* C6 as stated: every resource a read operation of the Observation,
\* Condition or Encounter service returns to a context holding only the
\* Patient role with patient_id x has subject "Patient/x".
C6_ReturnedInOwnCompartment ==
    (/\ last.op \in ReadOps
     /\ svc \in CompartmentKinds
     /\ last.context.roles = {"Patient"}
     /\ IsSome(last.context.patient_id)) =>
        \A r \in last.returned :
            SubjectOf(svc, r) = Some(PatientRef(Unwrap(last.context.patient_id)))

WriteCheck(ev) ==
    CASE ev = "repo_create" -> "can_create"
      [] ev = "repo_update" -> "can_update"
      [] ev = "repo_delete" -> "can_delete"

\* C8 as stated: in every service call, each repository write is preceded
\* in the same call by a successful rule-set check of the matching
\* permission for the caller's context.
C8_WritePrecededByCheck ==
    last.op # "none" =>
        \A i \in 1..Len(last.trace) :
            last.trace[i].ev \in {"repo_create", "repo_update", "repo_delete"} =>
                \E j \in 1..(i - 1) :
                    /\ last.trace[j].ev = WriteCheck(last.trace[i].ev)
                    /\ last.trace[j].context = last.context
                    /\ IsOk(last.trace[j].result)

\* C9: in the Observation, Condition and Encounter services every can_read
\* and can_delete call comes after a read by id that found the resource,
\* and is handed Some(that resource), never None.
C9_CheckAfterFetchWithSome ==
    (last.op # "none" /\ svc \in CompartmentKinds) =>
        \A i \in 1..Len(last.trace) :
            last.trace[i].ev \in {"can_read", "can_delete"} =>
                /\ IsSome(last.trace[i].resource)
                /\ \E j \in 1..(i - 1) :
                      /\ last.trace[j].ev = "read"
                      /\ last.trace[j].found
                      /\ Some(last.trace[j].id) = last.id
                      /\ Unwrap(last.trace[i].resource).id = last.trace[j].id

\* C9 witness: a delete in one of the three services reached can_delete,
\* which was handed the fetched resource.
C9_Witness ==
    /\ last.op = "delete"
    /\ svc \in CompartmentKinds
    /\ \E i \in 1..Len(last.trace) :
          /\ last.trace[i].ev = "can_delete"
          /\ IsSome(last.trace[i].resource)
          /\ IsForbidden(last.trace[i].result)

(***************************************************************************)
(* Transport-level claim                                                   *)
(***************************************************************************)
\* C7 as stated: a request's allow/deny outcome over RPC equals its outcome
\* over HTTP for the same caller, operation and target on the same table;
\* a caller Forbidden over HTTP is refused over RPC.
C7_RpcOutcomeEqualsHttp ==
    [][(last = NoCall /\ last' # NoCall /\ last'.transport = "grpc") =>
          LET http == Http_handler(last'.op, svc, db, last'.header,
                                   Arg(last'.id), Arg(last'.resource))
          IN  /\ IsOk(http.result) <=> IsOk(last'.result)
              /\ IsForbidden(http.result) => ~IsOk(last'.result)]_vars

(***************************************************************************)
(* Further claims about the authorization core (checked under SpecAuth)    *)
(***************************************************************************)
OwnRef(context) == Reference(Some(<<"Patient">> \o Unwrap(context.patient_id)))

\* C11: a context holding only the Patient role is refused with Forbidden
\* by can_create, can_update and can_delete of all four rule sets, for every
\* id and every resource, a resource of the caller's own compartment
\* included.
C11_PatientNeverWrites ==
    ( /\ chk.op \in {"can_create", "can_update", "can_delete"}
      /\ chk.context.roles = {"Patient"} ) => IsForbidden(chk.result)

\* C11 witness: can_create of an Observation whose subject is the caller's
\* own "Patient/<patient_id>" was refused.
C11_Witness ==
    /\ chk.op = "can_create"
    /\ chk.ruleset = "Observation"
    /\ chk.context.roles = {"Patient"}
    /\ IsSome(chk.context.patient_id)
    /\ chk.resource = Some([subject |-> Some(OwnRef(chk.context))])
    /\ IsForbidden(chk.result)

ClinicianGrants == {"Read", "Create", "Update", "Search", "ReadHistory"}

\* C12: for a context holding only the Clinician role,
\* check_patient_compartment_access succeeds for every patient id and every
\* permission of Read, Create, Update, Search, ReadHistory, and can_search
\* of the Observation, Condition and Encounter rule sets succeeds for every
\* filter, present or absent.
C12_ClinicianNoIdDependence ==
    chk.context.roles = {"Clinician"} =>
        /\ ( /\ chk.op = "check_patient_compartment_access"
             /\ chk.permission \in ClinicianGrants ) => IsOk(chk.result)
        /\ ( /\ chk.op = "can_search"
             /\ chk.ruleset \in CompartmentKinds ) => IsOk(chk.result)

\* C12 witness: a clinician with no patient_id passed the compartment check
\* for Update on an id that is no patient of the system.
C12_Witness ==
    /\ chk.op = "check_patient_compartment_access"
    /\ chk.context.roles = {"Clinician"}
    /\ chk.context.patient_id = None
    /\ chk.id = Some(<<"x">>)
    /\ chk.permission = "Update"
    /\ IsOk(chk.result)

\* C13: for every context whose role set contains Clinician, whatever
\* other roles it holds, and every patient id,
\* check_patient_compartment_access succeeds for each permission the
\* Clinician role grants.
C13_ClinicianAlwaysPasses ==
    ( /\ chk.op = "check_patient_compartment_access"
      /\ is_clinician(chk.context)
      /\ chk.permission \in ClinicianGrants ) => IsOk(chk.result)

\* C14: for the Observation, Condition and Encounter rule sets,
\* can_search(ctx, filter) succeeds iff check_permission(ctx, Search)
\* succeeds and, for filter = Some(pid),
\* check_patient_compartment_access(ctx, pid, Search) succeeds; a context
\* patient(uid, x) passes with Some(x) and with None and is refused with
\* Some(y) for every y different from x.
C14_SearchIsPermissionAndFilter ==
    (chk.op = "can_search" /\ chk.ruleset \in CompartmentKinds) =>
        /\ IsOk(chk.result) <=>
              /\ IsOk(check_permission(chk.context, chk.ruleset, "Search"))
              /\ IsSome(chk.id) =>
                    IsOk(check_patient_compartment_access(
                             chk.context, Unwrap(chk.id), "Search"))
        /\ ~IsOk(chk.result) => IsForbidden(chk.result)
        /\ BuiltByPatient(chk.context) =>
              (IsOk(chk.result) <=>
                  (chk.id = None \/ chk.id = chk.context.patient_id))

\* C14 witness: a patient() context searched with the filter of another
\* patient and was refused.
C14_Witness ==
    /\ chk.op = "can_search"
    /\ chk.ruleset = "Condition"
    /\ BuiltByPatient(chk.context)
    /\ IsSome(chk.id)
    /\ Unwrap(chk.id) \in PatientIds
    /\ chk.id # chk.context.patient_id
    /\ IsForbidden(chk.result)

RuleOps ==
    {"can_create", "can_read", "can_update", "can_delete", "can_search",
     "can_read_history"}

\* The first Authorizer check of the recorded rule-set method.
BaseCheck ==
    IF chk.op \in {"can_create", "can_search"}
    THEN check_permission(chk.context, chk.resource_type, chk.permission)
    ELSE check_resource_access(chk.context, chk.resource_type, Unwrap(chk.id),
                               chk.permission)

\* C15: every rule-set method returns the first Forbidden produced by the
\* Authorizer checks it calls, unchanged: when the base check fails the
\* result is the base failure (the permission failure names user,
\* permission and resource type), never the compartment one; a failure
\* after a passed base check is the compartment check's own failure.
C15_FirstForbiddenUnchanged ==
    (chk.op \in RuleOps /\ chk.ruleset \in ResourceTypes) =>
        /\ ~IsOk(BaseCheck) => chk.result = BaseCheck
        /\ ~IsOk(check_permission(chk.context, chk.resource_type,
                                  chk.permission)) =>
              chk.result = Forbidden(<<"permission", chk.context.user_id,
                                       chk.permission, chk.resource_type>>)
        /\ (IsOk(BaseCheck) /\ ~IsOk(chk.result)) =>
              /\ chk.ruleset \in CompartmentKinds
              /\ IsForbidden(chk.result)
              /\ chk.result.message[1] = "compartment"
              /\ chk.result =
                    check_patient_compartment_access(
                        chk.context, chk.result.message[3], chk.permission)

\* C15 witness: can_create by a patient() context on a resource of another
\* patient's compartment, where both checks would refuse, answered with the
\* permission failure carrying the rule set's resource type.
C15_Witness ==
    /\ chk.op = "can_create"
    /\ chk.ruleset = "Encounter"
    /\ BuiltByPatient(chk.context)
    /\ \E y \in PatientIds :
          /\ Some(y) # chk.context.patient_id
          /\ chk.resource =
                Some([subject |-> Some(Reference(Some(<<"Patient">> \o y)))])
          /\ chk.result = Forbidden(<<"permission", chk.context.user_id,
                                      "Create", "Encounter">>)

\* The ids a Forbidden message names (its arguments after the template and,
\* for the permission template, before the permission).
NamedIds(message) ==
    IF message[1] = "permission" THEN {message[2]}
    ELSE {message[i] : i \in 2..Len(message)}

\* C16: when check_patient_compartment_access refuses a Patient-role
\* context because of a compartment mismatch, the Forbidden failure names
\* both mismatching ids: the context's own patient_id and the requested
\* patient id.
C16_MismatchNamesBothIds ==
    ( /\ chk.op = "check_patient_compartment_access"
      /\ is_patient(chk.context)
      /\ IsSome(chk.context.patient_id)
      /\ chk.context.patient_id # chk.id
      /\ IsOk(check_permission(chk.context, "Patient", chk.permission))
      /\ IsForbidden(chk.result) ) =>
        /\ Unwrap(chk.context.patient_id) \in NamedIds(chk.result.message)
        /\ Unwrap(chk.id) \in NamedIds(chk.result.message)

Malformed(ref_str) == ~(Len(ref_str) = 2 /\ ref_str[1] = "Patient")

\* C17: for a context holding only the Patient role, can_read(ctx, id,
\* Some(resource)) returns Forbidden for every resource whose subject
\* reference is malformed (no "Patient/" prefix, or not exactly two
\* segments).
C17_MalformedReferenceDenied ==
    ( /\ chk.op = "can_read"
      /\ chk.ruleset \in CompartmentKinds
      /\ chk.context.roles = {"Patient"}
      /\ IsSome(chk.resource)
      /\ IsSome(SubjectOf(chk.ruleset, Unwrap(chk.resource)))
      /\ IsSome(Unwrap(SubjectOf(chk.ruleset, Unwrap(chk.resource))).reference)
      /\ Malformed(Unwrap(Unwrap(SubjectOf(chk.ruleset,
                                           Unwrap(chk.resource))).reference)) )
    => IsForbidden(chk.result)

\* C18: compartment-id extraction returns the reference string with a
\* leading "Patient/" removed when that prefix is present, the whole
\* reference string otherwise, and no id when the subject or its reference
\* string is absent; it never fails.
C18_ExtractionStripsPrefix ==
    chk.op = "extract_patient_id_from_reference" =>
        /\ IsOk(chk.result)
        /\ IF chk.resource = None \/ Unwrap(chk.resource).reference = None
           THEN chk.id = None
           ELSE LET ref_str == Unwrap(Unwrap(chk.resource).reference)
                IN  /\ IsSome(chk.id)
                    /\ IF Len(ref_str) >= 2 /\ ref_str[1] = "Patient"
                       THEN <<"Patient">> \o Unwrap(chk.id) = ref_str
                       ELSE Unwrap(chk.id) = ref_str

\* C18 witness: "Patient/p1/x" gave "p1/x".
C18_Witness ==
    /\ chk.op = "extract_patient_id_from_reference"
    /\ chk.resource = Some(Reference(Some(<<"Patient", IdNames[1], "x">>)))
    /\ chk.id = Some(<<IdNames[1], "x">>)

\* C19: the outcome (Ok or Forbidden) of check_permission depends only on
\* the role set and the permission: it is the same under every
\* resource_type label, and the label appears only in the failure message.
C19_LabelOnlyInMessage ==
    chk.op = "check_permission" =>
        /\ \A rt \in ResourceTypes :
              IsOk(check_permission(chk.context, rt, chk.permission))
                 = IsOk(chk.result)
        /\ ~IsOk(chk.result) =>
              chk.result = Forbidden(<<"permission", chk.context.user_id,
                                       chk.permission, chk.resource_type>>)

\* C19 witness: a Patient-role context was refused Update under the label
\* Encounter, the failure carrying that label.
C19_Witness ==
    /\ chk.op = "check_permission"
    /\ chk.context.roles = {"Patient"}
    /\ chk.permission = "Update"
    /\ chk.resource_type = "Encounter"
    /\ IsForbidden(chk.result)
    /\ chk.result.message[4] = "Encounter"

\* C20: PatientAuthorizationRules can_create and can_search decide on the
\* base permission alone: the outcome is that of check_permission(ctx,
\* "Patient", Create) and check_permission(ctx, "Patient", Search), so a
\* context holding only the Patient role passes can_search and is refused
\* can_create.
C20_PatientRulesBaseOnly ==
    (chk.ruleset = "Patient" /\ chk.op \in {"can_create", "can_search"}) =>
        /\ chk.permission = (IF chk.op = "can_create" THEN "Create" ELSE "Search")
        /\ chk.result = check_permission(chk.context, "Patient", chk.permission)
        /\ chk.context.roles = {"Patient"} =>
              (IsOk(chk.result) <=> chk.op = "can_search")

\* C20 witness: a patient() context passed can_search of the Patient rule
\* set.
C20_Witness ==
    /\ chk.ruleset = "Patient"
    /\ chk.op = "can_search"
    /\ BuiltByPatient(chk.context)
    /\ IsOk(chk.result)

(***************************************************************************)
(* Claims about identity (checked under SpecIdentity)                      *)
(***************************************************************************)
\* C21: building a SecurityContext from validated claims never fails: its
\* role set is exactly the set of role strings equal to "Admin",
\* "Clinician", "Patient" or "System", every other string being dropped,
\* and user_id, patient_id and organization_id are carried over unchanged.
C21_ContextFromClaims ==
    last.op = "to_security_context" =>
        /\ last.context.roles =
              last.claims.roles \cap {"Admin", "Clinician", "Patient", "System"}
        /\ last.context.user_id = last.claims.sub
        /\ last.context.patient_id = last.claims.patient_id
        /\ last.context.organization_id = last.claims.organization_id

\* C21 witness: claims with a known role, a role in another case and an
\* unknown role, with patient and organization ids, gave the one known role.
C21_Witness ==
    /\ last.op = "to_security_context"
    /\ last.claims.roles = {"Patient", "admin", "Nurse"}
    /\ IsSome(last.claims.patient_id)
    /\ IsSome(last.claims.organization_id)
    /\ last.context.roles = {"Patient"}

OptionalOps ==
    {"extract_optional_security_context", "extract_security_context_optional"}

\* The header carries a bearer token that validate_token accepts.
Authenticated(header) ==
    /\ IsSome(header)
    /\ Unwrap(header).scheme = "Bearer"
    /\ Unwrap(header).token.signed
    /\ ~Unwrap(header).token.expired

\* C22: when a request carries no token or a token that fails validation
\* (missing header, non-Bearer header, invalid or expired token), the
\* optional context extraction returns the fixed system context, user_id
\* "system" with role set {System}.
C22_FallbackIsSystem ==
    (last.op \in OptionalOps /\ ~Authenticated(last.header)) =>
        /\ last.context.user_id = <<"system">>
        /\ last.context.roles = {"System"}
        /\ last.context.patient_id = None
        /\ last.context.organization_id = None

\* C22 witness: an expired, well-signed bearer token of a patient gave the
\* system context over HTTP.
C22_Witness ==
    /\ last.op = "extract_optional_security_context"
    /\ IsSome(last.header)
    /\ Unwrap(last.header).scheme = "Bearer"
    /\ Unwrap(last.header).token.signed
    /\ Unwrap(last.header).token.expired
    /\ Unwrap(last.header).token.claims.roles = {"Patient"}
    /\ last.context = SecurityContext_system

(***************************************************************************)
(* Claims about the repositories (SpecRepoSeq: one call at a time;         *)
(* SpecRepo: interleaved calls)                                            *)
(***************************************************************************)
Quiescent == \A p \in Procs : calls[p].pc \in {"idle", "done"}

\* The history rows of the resource in row n with version v.
RowsAt(n, v) ==
    {k \in 1..Len(history) :
        history[k].id = db[n].resource.id /\ history[k].version_id = v}

RowsOf(n) == {k \in 1..Len(history) : history[k].id = db[n].resource.id}

IsPrefix(s, t) == Len(s) <= Len(t) /\ SubSeq(t, 1, Len(s)) = s

VersionsComplete ==
    Quiescent =>
        \A n \in 1..Len(db) :
            LET version == db[n].resource.version
            IN  /\ version = 1 + acked[n]
                /\ Cardinality(RowsOf(n)) = version
                /\ \A v \in 1..version :
                      /\ Cardinality(RowsAt(n, v)) = 1
                      /\ \A k \in RowsAt(n, v) :
                            /\ history[k].operation =
                                  (IF v = 1 THEN "CREATE" ELSE "UPDATE")
                            /\ history[k].resource.version = v

\* C23: starting from create (version 1 and one CREATE history row), after
\* any sequential series of n successful updates on an id the current
\* version is 1 + n and the history holds exactly one row for each version
\* 1..1+n; history rows are only appended, never modified or removed.
C23_VersionCountsUpdates ==
    [][VersionsComplete' /\ IsPrefix(history, history')]_vars

\* C23 witness: two updates were acknowledged on the first resource, which
\* is at version 3 with three history rows.
C23_Witness ==
    /\ Quiescent
    /\ Len(db) >= 1
    /\ acked[1] = 2
    /\ db[1].resource.version = 3
    /\ Cardinality(RowsOf(1)) = 3

\* Task p goes from outside a call to the result of one on id.
Answers(p, op, id) ==
    /\ calls[p].pc = "idle"
    /\ calls'[p].pc = "done"
    /\ calls'[p].op = op
    /\ calls'[p].id = id

\* C24: after a successful delete of an id, in every later state read
\* returns absent, search results exclude the resource, update and a second
\* delete return NotFound; the history rows written before the delete
\* remain and are still returned by get_history.
C24_DeletedStaysDeleted ==
    [][\A n \in Deleted(db) :
          LET id == db[n].resource.id
          IN  /\ n \in Deleted(db')
              /\ IsPrefix(history, history')
              /\ \A p \in Procs :
                    /\ (calls[p].pc = "idle" /\ calls'[p].pc = "update_write")
                          => calls'[p].id # id
                    /\ Answers(p, "read", id) =>
                          (IsOk(calls'[p].result) /\ calls'[p].value = None)
                    /\ Answers(p, "search", None) =>
                          \A r \in calls'[p].value : r.id # id
                    /\ Answers(p, "update", id) => calls'[p].result = NotFound
                    /\ Answers(p, "delete", id) => calls'[p].result = NotFound
                    /\ Answers(p, "get_history", id) =>
                          /\ IsOk(calls'[p].result)
                          /\ Len(calls'[p].value) = Cardinality(RowsOf(n))
                          /\ \A k \in RowsOf(n) :
                                \E j \in 1..Len(calls'[p].value) :
                                    calls'[p].value[j] = history[k].resource
    ]_vars

\* C24 witness: get_history of a deleted resource that had been updated
\* returned its two versions, newest first.
C24_Witness ==
    \E p \in Procs :
        /\ calls[p].pc = "done"
        /\ calls[p].op = "get_history"
        /\ IsOk(calls[p].result)
        /\ Len(calls[p].value) = 2
        /\ calls[p].value[1].version = 2
        /\ calls[p].value[2].version = 1
        /\ IdIndex(calls[p].id) \in Deleted(db)

\* Task p holds the Ok of an update of a resource nobody has deleted.
SucceededUpdate(p) ==
    /\ calls[p].pc = "done"
    /\ calls[p].op = "update"
    /\ IsOk(calls[p].result)
    /\ IdIndex(calls[p].id) \notin Deleted(db)

\* C25: under any interleaving of concurrent update calls on the same id,
\* no two successful updates return the same version: the version ids in
\* the history for that id stay unique and each successful update's version
\* is one more than the version it replaced.
C25_ConcurrentUpdatesDistinct ==
    /\ \A p, q \in Procs :
          (p # q /\ SucceededUpdate(p) /\ SucceededUpdate(q)
             /\ calls[p].id = calls[q].id) =>
              Unwrap(calls[p].value).version # Unwrap(calls[q].value).version
    /\ \A j, k \in 1..Len(history) :
          (j # k /\ history[j].id = history[k].id
             /\ IdIndex(history[j].id) \notin Deleted(db)) =>
              history[j].version_id # history[k].version_id
    /\ \A p \in Procs :
          SucceededUpdate(p) =>
              calls[p].replaced = Some(Unwrap(calls[p].value).version - 1)

\* C26: under any interleaving of an update and a delete on the same id, an
\* update that returns success has its returned version stored in the
\* current table, and no update returns success or appends a history row
\* for a resource that was already soft-deleted when its write executed.
C26_NoUpdateOfDeleted ==
    [][\A p \in Procs :
          (calls[p].pc = "update_history" /\ calls[p].replaced = None) =>
              /\ history' = history
              /\ ~(calls'[p].pc = "done" /\ IsOk(calls'[p].result))]_vars

(***************************************************************************)
(* Further claims about the services (checked under SpecSvc)               *)
(***************************************************************************)
\* The id names a live row of the table.
Exists(table, id) == IsUuid(id) /\ IdIndex(id) \in LiveRows(table)

\* The service methods that look the resource up before they authorize.
LookupFirst(kind, op) ==
    \/ kind \in CompartmentKinds /\ op \in {"get", "update", "delete"}
    \/ kind = "Patient" /\ op \in {"update", "delete"}

\* C27: for update and delete in all four services and for get in the
\* Observation, Condition and Encounter services the existence lookup
\* precedes the authorization check: an id that names no resource yields
\* NotFound for every caller (an id that is no UUID, InvalidReference) and
\* Forbidden is returned only for existing resources; PatientService.get
\* alone authorizes first, so an unauthorized caller gets Forbidden whether
\* or not the id exists.
C27_LookupBeforeAuthorization ==
    [][last'.op \in {"get", "update", "delete"} =>
          LET id == Unwrap(last'.id)
          IN  /\ LookupFirst(svc, last'.op) =>
                    /\ (IsUuid(id) /\ ~Exists(db, id)) =>
                          last'.result = NotFound
                    /\ ~IsUuid(id) => last'.result = Err("InvalidReference")
                    /\ IsForbidden(last'.result) => Exists(db, id)
              /\ (svc = "Patient" /\ last'.op = "get"
                    /\ ~IsOk(Patient_can_read(last'.context, id))) =>
                    IsForbidden(last'.result)]_vars

\* C27 witness: a patient() caller asked an Observation, Condition or
\* Encounter service to delete an id that names nothing and got NotFound.
C27_Witness ==
    /\ svc \in CompartmentKinds
    /\ last.op = "delete"
    /\ BuiltByPatient(last.context)
    /\ IsUuid(Unwrap(last.id))
    /\ last.result = NotFound

\* C28: in the Observation, Condition and Encounter services the
\* authorization outcome of update(ctx, id, candidate) depends only on the
\* context and the candidate's subject reference; the subject of the
\* resource stored under id does not influence whether the update is
\* allowed.
C28_UpdateJudgedOnCandidate ==
    [][(svc \in CompartmentKinds /\ last'.op = "update"
          /\ Exists(db, Unwrap(last'.id))) =>
          (IsForbidden(last'.result) <=>
              ~IsOk(can_update(svc, last'.context, <<"x">>,
                               [subject |-> Unwrap(last'.resource).subject])))
      ]_vars

\* C28 witness: a caller who is clinician and patient p1 updated a stored
\* resource of another patient's compartment, the candidate naming
\* "Patient/p1".
C28_Witness ==
    /\ svc \in CompartmentKinds
    /\ last.op = "update"
    /\ last.context.roles = {"Clinician", "Patient"}
    /\ IsOk(last.result)
    /\ \E r \in last.returned :
          /\ r.version = 2
          /\ SubjectOf(svc, r) = Some(OwnRef(last.context))
    /\ \E ev \in {last.trace[i] : i \in 1..Len(last.trace)} :
          ev.ev = "can_update" /\ IsOk(ev.result)

\* C29: every resource returned by search_by_patient(ctx, pid) of the
\* Observation, Condition and Encounter services has a subject reference
\* for which compartment-id extraction yields pid, so it would also pass
\* can_read for a Patient-role caller whose patient_id is pid.
C29_IndexAgreesWithCompartment ==
    (svc \in CompartmentKinds /\ last.op = "search_by_patient"
       /\ IsOk(last.result)) =>
        \A r \in last.returned :
            /\ extract_patient_id_from_reference(SubjectOf(svc, r)) = last.arg
            /\ \A u \in UserIds :
                  IsOk(can_read(svc, SecurityContext_patient(u, Unwrap(last.arg)),
                                r.id, Some(r)))

\* A stored patient matches the criteria when its family name is the one
\* every filter asks for.
Matches(row, search_params) ==
    \A i \in 1..Len(search_params.filters) :
        search_params.filters[i][1] = "family" =>
            row.resource.code = search_params.filters[i][2]

MatchingPatients(table, search_params) ==
    {n \in LiveRows(table) : Matches(table[n], search_params)}

\* C30: PatientService.conditional_create(ctx, patient, criteria) by a
\* caller allowed to search and create creates the patient if and only if
\* no existing non-deleted patient matches the criteria, and returns
\* PreconditionFailed if and only if at least one does; an existing
\* patient that does not match the criteria never blocks the create.
C30_OnlyMatchesBlock ==
    [][(svc = "Patient" /\ last'.op = "conditional_create"
          /\ IsOk(Patient_can_search(last'.context))
          /\ IsOk(Patient_can_create(last'.context, Unwrap(last'.resource)))
          /\ Len(db) < MaxResources) =>
          LET matching == MatchingPatients(db, Unwrap(last'.arg))
          IN  /\ (last'.result = Err("PreconditionFailed")) <=> matching # {}
              /\ IsOk(last'.result) <=> matching = {}]_vars

====
